---- MODULE Spec2Model ----
(***************************************************************************)
(* Document processing pipeline of the syllabusai backend:                 *)
(*   upload_document / delete_document   (api/v1/endpoints/documents.py)   *)
(*   process_document Celery task        (celery_worker.py)                *)
(*   RAGService.process_document         (services/rag_service.py)         *)
(*   RAGService._generate_embeddings     (services/rag_service.py)         *)
(* and the question answering over the stored chunks:                      *)
(*   chat_with_course                    (api/v1/endpoints/chat.py)        *)
(*   ChatService.ask_question            (services/chat_service.py)        *)
(*   StudyService._generate_quiz_set     (services/study_service.py)       *)
(* The chunk store is the document_chunks table (models.py).               *)
(***************************************************************************)
EXTENDS Integers, Sequences, FiniteSets, TLC

\* ---------------------------------------------------------------- bounds
NumDocs == 2          \* document ids that can ever be uploaded
MaxTasks == 2         \* process_document task messages ever sent
ChunkSize == 3        \* chunk_size of the splitter, scaled down from 1000
ChunkOverlap == 1     \* chunk_overlap of the splitter, scaled down from 200
NumCourses == 2       \* courses a document can be uploaded to
MaxTopK == 2          \* largest top_k tried besides the endpoint's own
MaxRequests == 1      \* questions handled
QuizLength == 2       \* questions of a generated quiz, scaled down from 3-10
MaxTextLen == 4       \* longest text given to chunk_text
MaxChunkSize == 3     \* largest chunk_size given to chunk_text
NumStudents == 2      \* students that ask to join a course
MaxJoins == 3         \* join_course requests handled

\* ------------------------------------------------------ program constants
MaxRetries == 3       \* self.retry(..., max_retries=3)
StopAfterAttemptFour == 2 + 2
StopAfterAttempt == 3 \* @retry(stop=stop_after_attempt(3))

Docs == 1..NumDocs
TaskIds == 1..MaxTasks
NoDoc == 0            \* NULL in document_chunks.document_id
Corrupt == << <<-1>> >>   \* bytes that PdfReader cannot open (no page text)
PageSep == <<0, 0>>   \* the "\n\n" that joins the page texts

\* Uploaded files: unparsable bytes, or the texts of the pages of a PDF
\* (<<>> is an image-only page); characters are small positive numbers.
FileSet == {Corrupt, << <<>> >>, << <<1, 2, 3, 4, 5>>, <<>> >>}

\* Failure kinds a run can end with, and the ones the specification calls
\* permanent (not found, cannot be parsed) or transient.
PermanentKinds == {"notfound", "corrupt", "embed_invalid"}
TransientKinds == {"download", "embed_unavailable", "storage"}
EmbedErrKinds == {"embed_unavailable", "embed_invalid"}

Courses == 1..NumCourses
NoCourse == 0         \* no documents row, hence no course_id

\* Question texts; similarities are kept in hundredths (0.75 is 75).
Questions == { <<1, 2, 3>>, <<2, 3, 4>>, <<1, 2, 3, 4>>, <<1, 2, 6, 7>> }
TopK == 5                     \* top_k=5 of chat_with_course
SimilarityThreshold == 50     \* similarity_threshold=0.5 of chat_with_course
DefaultThreshold == 70        \* similarity_threshold default of ask_question
HighConfidence == 75          \* max_score >= 0.75
MediumConfidence == 60        \* max_score >= 0.6
Thresholds == {0, SimilarityThreshold, DefaultThreshold}
LiveQuestions == { <<1, 2, 3, 4>> }   \* the question asked while runs go on
TopKs == (0..MaxTopK) \cup {TopK}

\* Exception classes an OpenAI call can raise (a response that cannot be
\* decoded raises a ValueError subclass), and the messages of the endpoint.
ServiceErrors == {"APIConnectionError", "ValueError"}
NoRelevantMessage == "No relevant course materials found for this question"
GenericMessage == "Failed to process your question. Please try again."

VARIABLES
    documents,  \* documents table: document id -> file behind its s3 key
    nDocs,      \* number of documents uploaded so far (ids are never reused)
    store,      \* document_chunks table: set of committed DocumentChunk rows
    tasks,      \* the process_document task messages sent so far, in order
    course_id,  \* documents.course_id: document id -> course of the upload
    chat,       \* the last question handled and what its caller got back
    quiz,       \* the quiz generation going on or last finished
    chunker,    \* the locals of a chunk_text call
    enrollments, \* enrollments table: set of committed Enrollment rows
    joins       \* the join_course requests received so far, in order

vars == <<documents, nDocs, store, tasks, course_id, chat, quiz, chunker,
          enrollments, joins>>

\* ---------------------------------------------------- pure functions
RECURSIVE Join(_)
\* "\n\n".join(text_parts)
Join(parts) ==
    IF parts = <<>> THEN <<>>
    ELSE IF Len(parts) = 1 THEN parts[1]
    ELSE parts[1] \o PageSep \o Join(Tail(parts))

\* RAGService._extract_text_from_pdf on a parsable file: pages without text
\* are skipped, the others are joined with a blank line.
extract_text_from_pdf(file) ==
    Join(SelectSeq(file, LAMBDA p : p # <<>>))

RECURSIVE Windows(_, _)
Windows(text, start) ==
    IF start + ChunkSize - 1 >= Len(text)
    THEN << SubSeq(text, start, Len(text)) >>
    ELSE << SubSeq(text, start, start + ChunkSize - 1) >>
         \o Windows(text, start + (ChunkSize - ChunkOverlap))

\* text_splitter.split_text: no chunk for the empty text, one chunk for a
\* text that fits, otherwise windows of ChunkSize sharing ChunkOverlap.
split_text(text) ==
    IF text = <<>> THEN <<>> ELSE Windows(text, 1)

\* The embedding model: one vector per text (a stand-in for the opaque
\* text-embedding-3-small model; equal texts get equal vectors).
EmbeddingModel(text) == <<"vec", text>>

\* response.data of one successful embeddings.create call: the service
\* answers with the vectors of the first m inputs, m = Len(texts) when it
\* honours its contract.
ServiceAnswers(texts) ==
    { [i \in 1..m |-> [index |-> i - 1, embedding |-> EmbeddingModel(texts[i])]]
        : m \in 0..Len(texts) }

\* embeddings = [item.embedding for item in response.data]
EmbeddingsOf(data) == [i \in 1..Len(data) |-> data[i].embedding]

Min(a, b) == IF a < b THEN a ELSE b

\* The DocumentChunk rows of step 6: enumerate(zip(chunks, embeddings)).
\* A row id stands for the uuid4 primary key: unique per task, run and row.
ChunkRows(t, run, d, chunks, embeddings) ==
    { [id |-> <<t, run, idx>>,
       document_id |-> d,
       text_content |-> chunks[idx + 1],
       chunk_index |-> idx,
       embedding |-> embeddings[idx + 1]]
        : idx \in 0..(Min(Len(chunks), Len(embeddings)) - 1) }

\* ------------------------------------------------------------- state
Absent == << <<-2>> >>    \* no row with that id in the documents table

\* A task message and the locals of its current run: request.retries, the
\* attempt number of tenacity, the downloaded bytes, the chunk texts,
\* response.data and the embeddings, the exception of the last failure and
\* the chunk_count the task returned (-1: none yet).
NewTask(d) ==
    [doc |-> d, pc |-> "PENDING", retries |-> 0, attempt |-> 0,
     file |-> <<>>, chunks |-> <<>>, data |-> <<>>, embeddings |-> <<>>,
     err |-> "none", chunk_count |-> -1]

\* No question handled yet. A request record holds what was asked, the
\* (chunk, score) list, the service that failed and the exception that
\* reached the endpoint, and the response: status, detail, confidence.
NoRequest ==
    [seq |-> 0, op |-> "none", course |-> NoCourse, question |-> <<>>, top_k |-> 0,
     threshold |-> 0, results |-> <<>>, failed |-> "none", raised |-> "none",
     completion_calls |-> 0, status |-> 0, detail |-> "", confidence |-> ""]

\* No quiz asked for yet. A generation holds the number of attempts made,
\* the last response of the completion model, the quiz returned, and the
\* attempt whose response first had an index out of range (0: none had).
NoQuiz ==
    [pc |-> "idle", attempt |-> 0, response |-> <<>>, returned |-> <<>>,
     first_invalid |-> 0]

\* No chunk_text call: text, chunk_size, overlap, and the locals start
\* and chunks of a call.
NoChunking ==
    [pc |-> "idle", text |-> <<>>, chunk_size |-> 1, overlap |-> 0,
     start |-> 0, chunks |-> <<>>]

Init ==
    /\ documents = [d \in Docs |-> Absent]
    /\ nDocs = 0
    /\ store = {}
    /\ tasks = << >>
    /\ course_id = [d \in Docs |-> NoCourse]
    /\ chat = NoRequest
    /\ quiz = NoQuiz
    /\ enrollments = {}
    /\ joins = << >>
    /\ chunker = NoChunking

Exists(d) == documents[d] # Absent

\* celery_app.send_task("process_document", args=[str(document.id)])
send_task(d) ==
    /\ Len(tasks) < MaxTasks
    /\ tasks' = Append(tasks, NewTask(d))

\* upload_document: the Document row is committed, then the task is sent.
UploadDocument(d, f, course) ==
    /\ d = nDocs + 1
    /\ nDocs' = d
    /\ documents' = [documents EXCEPT ![d] = f]
    /\ course_id' = [course_id EXCEPT ![d] = course]
    /\ send_task(d)
    /\ UNCHANGED <<store, chat, quiz, chunker, enrollments, joins>>

\* A process_document message for the id of an uploaded document from any
\* other producer (a manual re-trigger): the task takes any document id.
Trigger(d) ==
    /\ d <= nDocs
    /\ send_task(d)
    /\ UNCHANGED <<documents, nDocs, store, course_id, chat, quiz, chunker, enrollments, joins>>

\* delete_document: session.delete(document) and commit. Document.chunks
\* has no delete cascade, so the flush sets document_id of the document's
\* chunk rows to NULL before the documents row is deleted.
DeleteDocument(d) ==
    /\ Exists(d)
    /\ documents' = [documents EXCEPT ![d] = Absent]
    /\ store' = { IF c.document_id = d THEN [c EXCEPT !.document_id = NoDoc] ELSE c
                    : c \in store }
    /\ UNCHANGED <<nDocs, tasks, course_id, chat, quiz, chunker, enrollments, joins>>

\* ------------------------------------------------ process_document task
\* Retry with the comparison off by one: a fourth retry is sent.
RetryOffByOne(task, kind) ==
    LET raised == [task EXCEPT !.err = kind, !.file = <<>>, !.chunks = <<>>,
                               !.data = <<>>, !.embeddings = <<>>]
    IN IF task.retries <= MaxRetries
       THEN [raised EXCEPT !.pc = "RETRY", !.retries = task.retries + 1]
       ELSE [raised EXCEPT !.pc = "FAILURE"]

\* Retry that never gives up: the task is sent again whatever
\* request.retries is.
RetryForever(task, kind) ==
    [task EXCEPT !.err = kind, !.file = <<>>, !.chunks = <<>>,
                 !.data = <<>>, !.embeddings = <<>>, !.pc = "RETRY"]

\* The except clause of the task: self.retry(exc=e, countdown=60,
\* max_retries=3) sends the task again with retries + 1, or, when
\* request.retries has reached max_retries, lets the task fail.
Retry(task, kind) ==
    LET raised == [task EXCEPT !.err = kind, !.file = <<>>, !.chunks = <<>>,
                               !.data = <<>>, !.embeddings = <<>>]
    IN IF task.retries < MaxRetries
       THEN [raised EXCEPT !.pc = "RETRY", !.retries = task.retries + 1]
       ELSE [raised EXCEPT !.pc = "FAILURE"]

\* s3_service.download_file(s3_key): the bytes stored under the key, or an
\* exception (storage unreachable, object deleted).
download_file(d) ==
    (IF Exists(d) THEN {[ok |-> TRUE, content |-> documents[d]]} ELSE {})
    \cup {[ok |-> FALSE, content |-> <<>>]}

\* Messages are delivered in the order they were sent; a retry comes back
\* when its countdown has passed.
Runnable(t) ==
    /\ t \in 1..Len(tasks)
    /\ \/ tasks[t].pc = "RETRY"
       \/ /\ tasks[t].pc = "PENDING"
          /\ \A u \in 1..(t - 1) : tasks[u].pc # "PENDING"

\* A worker takes the message and runs steps 1 and 2 of
\* RAGService.process_document: session.get(Document, document_id), which
\* raises ValueError when there is no such row, then the download.
StartRun(t) ==
    /\ Runnable(t)
    /\ \E dl \in download_file(tasks[t].doc) :
         LET run == [tasks[t] EXCEPT !.attempt = 0, !.err = "none"]
         IN tasks' = [tasks EXCEPT ![t] =
                         IF ~Exists(run.doc) THEN Retry(run, "notfound")
                         ELSE IF ~dl.ok THEN Retry(run, "download")
                         ELSE [run EXCEPT !.pc = "EXTRACTING", !.file = dl.content]]
    /\ UNCHANGED <<documents, nDocs, store, course_id, chat, quiz, chunker, enrollments, joins>>

\* Steps 3 and 4: _extract_text_from_pdf raises when PdfReader cannot open
\* the bytes; otherwise the text is split into chunks.
ExtractAndSplit(t) ==
    /\ t \in 1..Len(tasks) /\ tasks[t].pc = "EXTRACTING"
    /\ LET task == tasks[t]
       IN tasks' = [tasks EXCEPT ![t] =
                       IF task.file = Corrupt
                       THEN Retry(task, "corrupt")
                       ELSE [task EXCEPT !.pc = "EMBEDDING",
                                !.chunks = split_text(extract_text_from_pdf(task.file))]]
    /\ UNCHANGED <<documents, nDocs, store, course_id, chat, quiz, chunker, enrollments, joins>>

\* An attempt that swallows the last failure and returns an empty list.
generate_embeddings_swallow(task, outcome) ==
    LET att == [task EXCEPT !.attempt = task.attempt + 1]
    IN IF outcome.ok
       THEN [att EXCEPT !.pc = "STORING", !.err = "none", !.data = outcome.data,
                        !.embeddings = EmbeddingsOf(outcome.data)]
       ELSE IF att.attempt >= StopAfterAttempt
            THEN [att EXCEPT !.pc = "STORING", !.err = outcome.kind]
            ELSE [att EXCEPT !.err = outcome.kind]

\* An attempt that loses the last vector when it is a retry.
generate_embeddings_lossy_retry(task, outcome) ==
    LET att == [task EXCEPT !.attempt = task.attempt + 1]
        all == EmbeddingsOf(outcome.data)
    IN IF outcome.ok
       THEN [att EXCEPT !.pc = "STORING", !.err = "none", !.data = outcome.data,
                        !.embeddings = IF att.attempt > 1 /\ all # <<>>
                                       THEN SubSeq(all, 1, Len(all) - 1) ELSE all]
       ELSE IF att.attempt >= StopAfterAttempt
            THEN Retry(att, outcome.kind)
            ELSE [att EXCEPT !.err = outcome.kind]

\* Step 5, one attempt of _generate_embeddings under @retry: the call
\* returns the embeddings of response.data, or raises; tenacity retries
\* after any exception until stop_after_attempt(3), then raises RetryError.
generate_embeddings_attempt(task, outcome) ==
    LET att == [task EXCEPT !.attempt = task.attempt + 1]
    IN IF outcome.ok
       THEN [att EXCEPT !.pc = "STORING", !.err = "none", !.data = outcome.data,
                        !.embeddings = EmbeddingsOf(outcome.data)]
       ELSE IF att.attempt >= StopAfterAttempt
            THEN Retry(att, outcome.kind)
            ELSE [att EXCEPT !.err = outcome.kind]

EmbedOutcomes(texts) ==
    { [ok |-> TRUE, data |-> a, kind |-> "none"] : a \in ServiceAnswers(texts) }
    \cup { [ok |-> FALSE, data |-> <<>>, kind |-> k] : k \in EmbedErrKinds }

EmbedAttempt(t) ==
    /\ t \in 1..Len(tasks) /\ tasks[t].pc = "EMBEDDING"
    /\ \E outcome \in EmbedOutcomes(tasks[t].chunks) :
         tasks' = [tasks EXCEPT ![t] = generate_embeddings_attempt(tasks[t], outcome)]
    /\ UNCHANGED <<documents, nDocs, store, course_id, chat, quiz, chunker, enrollments, joins>>

\* SaveChunks without the transaction: the rows flushed before the failure
\* stay in the table.
SaveChunksNoRollback(t, commits) ==
    /\ t \in 1..Len(tasks) /\ tasks[t].pc = "STORING"
    /\ commits => Exists(tasks[t].doc)
    /\ LET task == tasks[t]
           rows == ChunkRows(t, task.retries, task.doc, task.chunks, task.embeddings)
       IN IF commits
          THEN /\ store' = store \cup rows
               /\ tasks' = [tasks EXCEPT ![t] =
                               [task EXCEPT !.pc = "SUCCESS", !.file = <<>>,
                                            !.chunk_count = Len(task.chunks)]]
          ELSE /\ store' = store \cup { c \in rows : c.chunk_index = 0 }
               /\ tasks' = [tasks EXCEPT ![t] = Retry(task, "storage")]
    /\ UNCHANGED <<documents, nDocs, course_id, chat, quiz, chunker, enrollments, joins>>

\* Step 6: the rows are added to the session and committed in one
\* transaction; the commit fails when the database is unavailable or the
\* document row is gone (foreign key), the session is rolled back and the
\* exception raised. On success the task returns chunk_count = len(chunks).
SaveChunks(t, commits) ==
    /\ t \in 1..Len(tasks) /\ tasks[t].pc = "STORING"
    /\ commits => Exists(tasks[t].doc)
    /\ LET task == tasks[t]
           rows == ChunkRows(t, task.retries, task.doc, task.chunks, task.embeddings)
       IN IF commits
          THEN /\ store' = store \cup rows
               /\ tasks' = [tasks EXCEPT ![t] =
                               [task EXCEPT !.pc = "SUCCESS", !.file = <<>>,
                                            !.chunk_count = Len(task.chunks)]]
          ELSE /\ store' = store
               /\ tasks' = [tasks EXCEPT ![t] = Retry(task, "storage")]
    /\ UNCHANGED <<documents, nDocs, course_id, chat, quiz, chunker, enrollments, joins>>

\* ------------------------------------------------------- ChatService
Max(a, b) == IF a > b THEN a ELSE b
Chars(text) == { text[i] : i \in 1..Len(text) }

\* 1 - DocumentChunk.embedding.cosine_distance(question_embedding), in
\* hundredths. The geometry of the model's vectors is a stand-in: the
\* share of characters two texts have in common.
cosine_similarity(u, v) ==
    LET a == Chars(u[2])
        b == Chars(v[2])
    IN IF a = {} \/ b = {} THEN 0
       ELSE (100 * Cardinality(a \cap b)) \div Max(Cardinality(a), Cardinality(b))

\* The WHERE clause without the course: every joined row that is similar
\* enough, whatever the course of its document.
MatchingAnyCourse(course, question_embedding, similarity_threshold) ==
    { c \in store :
        /\ c.document_id \in Docs /\ Exists(c.document_id)
        /\ cosine_similarity(question_embedding, c.embedding) >= similarity_threshold }

\* select(DocumentChunk, similarity).join(Document, DocumentChunk.document_id
\* == Document.id).where(Document.course_id == course_id).where(similarity
\* >= similarity_threshold): a row without a documents row does not join.
Matching(course, question_embedding, similarity_threshold) ==
    { c \in store :
        /\ c.document_id \in Docs /\ Exists(c.document_id)
        /\ course_id[c.document_id] = course
        /\ cosine_similarity(question_embedding, c.embedding) >= similarity_threshold }

MaxScoring(rows, question_embedding) ==
    { c \in rows : \A o \in rows :
        cosine_similarity(question_embedding, o.embedding)
            <= cosine_similarity(question_embedding, c.embedding) }

RECURSIVE OrderByLimit(_, _, _)
\* .order_by(similarity.desc()).limit(top_k): the lists the statement can
\* return. Rows of equal similarity come in the order the database happens
\* to produce, there is no second sort key.
OrderByLimit(rows, question_embedding, top_k) ==
    IF top_k = 0 \/ rows = {} THEN { <<>> }
    ELSE UNION {
            { << [chunk |-> c,
                  score |-> cosine_similarity(question_embedding, c.embedding)] >>
                \o rest : rest \in OrderByLimit(rows \ {c}, question_embedding, top_k - 1) }
            : c \in MaxScoring(rows, question_embedding) }

\* The statement without its LIMIT.
search_relevant_chunks_no_limit(course, question_embedding, top_k, similarity_threshold) ==
    LET rows == Matching(course, question_embedding, similarity_threshold)
    IN OrderByLimit(rows, question_embedding, Cardinality(rows))

\* ChatService._search_relevant_chunks: the (chunk, score) lists it can
\* return for a course and a question vector.
search_relevant_chunks(course, question_embedding, top_k, similarity_threshold) ==
    OrderByLimit(Matching(course, question_embedding, similarity_threshold),
                 question_embedding, top_k)

\* What the service calls of one request do: the number of attempts that
\* raise before one returns (3: none returns) and the exception raised.
CallOutcomes ==
    { [fails |-> n, kind |-> "none"] : n \in 0..(StopAfterAttempt - 1) }
    \cup { [fails |-> StopAfterAttempt, kind |-> k] : k \in ServiceErrors }

\* A call under @retry that lets the last exception through (reraise=True).
retry_call_reraise(outcome) ==
    IF outcome.fails >= StopAfterAttempt
    THEN [raised |-> outcome.kind, calls |-> StopAfterAttempt]
    ELSE [raised |-> "none", calls |-> outcome.fails + 1]

\* A call under @retry(stop=stop_after_attempt(3)): every exception is
\* retried, and after the third failure tenacity raises RetryError.
retry_call(outcome) ==
    IF outcome.fails >= StopAfterAttempt
    THEN [raised |-> "RetryError", calls |-> StopAfterAttempt]
    ELSE [raised |-> "none", calls |-> outcome.fails + 1]

\* ChatService._embed_question: rag_service._generate_embeddings([question])
\* and embeddings[0], an IndexError when response.data came back empty.
embed_question(outcome, data) ==
    LET call == retry_call(outcome)
        embeddings == EmbeddingsOf(data)
    IN IF call.raised # "none"
       THEN [raised |-> call.raised, failed |-> "embedding", vector |-> <<>>]
       ELSE IF embeddings = <<>>
            THEN [raised |-> "IndexError", failed |-> "embedding", vector |-> <<>>]
            ELSE [raised |-> "none", failed |-> "none", vector |-> embeddings[1]]

\* ask_question that sends an empty context to the completion service.
ask_question_no_check(embedded, found, outcome) ==
    LET call == retry_call(outcome)
    IN IF embedded.raised # "none"
       THEN [raised |-> embedded.raised, message |-> "", failed |-> "embedding",
             results |-> <<>>, completion_calls |-> 0]
       ELSE IF call.raised # "none"
            THEN [raised |-> call.raised, message |-> "", failed |-> "completion",
                  results |-> <<>>, completion_calls |-> call.calls]
            ELSE [raised |-> "none", message |-> "", failed |-> "none",
                  results |-> found, completion_calls |-> call.calls]

\* ChatService.ask_question after the search returned `found`: ValueError
\* when nothing was found, otherwise _generate_answer under @retry.
ask_question(embedded, found, outcome) ==
    LET call == retry_call(outcome)
    IN IF embedded.raised # "none"
       THEN [raised |-> embedded.raised, message |-> "", failed |-> "embedding",
             results |-> <<>>, completion_calls |-> 0]
       ELSE IF found = <<>>
            THEN [raised |-> "ValueError", message |-> NoRelevantMessage,
                  failed |-> "none", results |-> <<>>, completion_calls |-> 0]
            ELSE IF call.raised # "none"
                 THEN [raised |-> call.raised, message |-> "", failed |-> "completion",
                       results |-> <<>>, completion_calls |-> call.calls]
                 ELSE [raised |-> "none", message |-> "", failed |-> "none",
                       results |-> found, completion_calls |-> call.calls]

\* The lowest score of the list instead of the highest.
min_score(results) ==
    CHOOSE m \in { results[i].score : i \in 1..Len(results) } :
        \A i \in 1..Len(results) : m <= results[i].score

\* max(score for _, score in chunks_with_scores)
max_score(results) ==
    CHOOSE m \in { results[i].score : i \in 1..Len(results) } :
        \A i \in 1..Len(results) : results[i].score <= m

confidence_label(score) ==
    IF score >= HighConfidence THEN "high"
    ELSE IF score >= MediumConfidence THEN "medium"
    ELSE "low"

\* The try block of chat_with_course around ask_question(top_k=5,
\* similarity_threshold=0.5): a ChatResponse with the sources and the
\* confidence, 400 with str(e) for a ValueError (max() of an empty list
\* raises one too), 500 with a fixed message for any other exception.
chat_with_course(course, question, asked) ==
    LET request == [NoRequest EXCEPT !.op = "chat", !.course = course,
                        !.question = question, !.top_k = TopK,
                        !.threshold = SimilarityThreshold,
                        !.failed = asked.failed, !.raised = asked.raised,
                        !.completion_calls = asked.completion_calls]
    IN IF asked.raised = "none" /\ asked.results # <<>>
       THEN [request EXCEPT !.status = 200, !.results = asked.results,
                            !.confidence = confidence_label(max_score(asked.results))]
       ELSE IF asked.raised = "none"
            THEN [request EXCEPT !.raised = "ValueError", !.status = 400,
                                 !.detail = "max() arg is an empty sequence"]
            ELSE IF asked.raised = "ValueError"
                 THEN [request EXCEPT !.status = 400, !.detail = asked.message]
                 ELSE [request EXCEPT !.status = 500, !.detail = GenericMessage]

\* POST /chat that keeps the question it was asked as a row of the store.
ChatWithCourseKeepingQuestion(course, question) ==
    /\ chat.seq < MaxRequests
    /\ \E embedding \in CallOutcomes, data \in ServiceAnswers(<<question>>),
          completion \in CallOutcomes :
         LET embedded == embed_question(embedding, data)
         IN \E found \in (IF embedded.raised = "none"
                          THEN search_relevant_chunks(course, embedded.vector, TopK,
                                                      SimilarityThreshold)
                          ELSE { <<>> }) :
               chat' = [chat_with_course(course, question,
                                         ask_question(embedded, found, completion))
                          EXCEPT !.seq = chat.seq + 1]
    /\ store' = store \cup { [id |-> <<0, 0, 0>>, document_id |-> NoDoc,
                              text_content |-> question, chunk_index |-> 0,
                              embedding |-> EmbeddingModel(question)] }
    /\ UNCHANGED <<documents, nDocs, tasks, course_id, quiz, chunker, enrollments, joins>>

\* POST /chat for a course the caller may access.
ChatWithCourse(course, question) ==
    /\ chat.seq < MaxRequests
    /\ \E embedding \in CallOutcomes, data \in ServiceAnswers(<<question>>),
          completion \in CallOutcomes :
         LET embedded == embed_question(embedding, data)
         IN \E found \in (IF embedded.raised = "none"
                          THEN search_relevant_chunks(course, embedded.vector, TopK,
                                                      SimilarityThreshold)
                          ELSE { <<>> }) :
               chat' = [chat_with_course(course, question,
                                         ask_question(embedded, found, completion))
                          EXCEPT !.seq = chat.seq + 1]
    /\ UNCHANGED <<documents, nDocs, store, tasks, course_id, quiz, chunker, enrollments, joins>>

\* _search_relevant_chunks applied to the vector of a question.
SearchRelevantChunks(course, question, top_k, similarity_threshold) ==
    /\ chat.seq < MaxRequests
    /\ \E found \in search_relevant_chunks(course, EmbeddingModel(question), top_k,
                                           similarity_threshold) :
         chat' = [NoRequest EXCEPT !.seq = chat.seq + 1, !.op = "search",
                      !.course = course,
                      !.question = question, !.top_k = top_k,
                      !.threshold = similarity_threshold, !.results = found]
    /\ UNCHANGED <<documents, nDocs, store, tasks, course_id, quiz, chunker, enrollments, joins>>

\* ------------------------------------------------------- StudyService
\* A QuizQuestion as the model can send it: options stands for len(options).
OptionCounts == {2, 3}
AnswerIndexes == -1..3
QuizQuestions == [options : OptionCounts, correct_answer_index : AnswerIndexes]
QuizSets == [1..QuizLength -> QuizQuestions]

\* response_model=QuizSet: instructor validates correct_answer_index ge=0.
SchemaValid(quiz_set) ==
    \A i \in 1..Len(quiz_set) : quiz_set[i].correct_answer_index >= 0

\* The loop after the call: no correct_answer_index >= len(options).
IndexInBounds(quiz_set) ==
    \A i \in 1..Len(quiz_set) :
        ~(quiz_set[i].correct_answer_index >= quiz_set[i].options)

QuizOutcomes ==
    { [ok |-> TRUE, quiz_set |-> q] : q \in QuizSets }
    \cup { [ok |-> FALSE, quiz_set |-> <<>>] }

\* One attempt of _generate_quiz_set under @retry(stop_after_attempt(3)):
\* the call raises, or its response fails the schema or the bounds loop
\* (ValueError), and tenacity makes another attempt or, after the third,
\* raises RetryError; otherwise the quiz set is returned as it came.
generate_quiz_set_attempt(gen, outcome) ==
    LET att == [gen EXCEPT !.attempt = gen.attempt + 1,
                           !.response = outcome.quiz_set,
                           !.first_invalid =
                               IF gen.first_invalid = 0 /\ outcome.ok
                                  /\ ~(SchemaValid(outcome.quiz_set)
                                       /\ IndexInBounds(outcome.quiz_set))
                               THEN gen.attempt + 1 ELSE gen.first_invalid]
    IN IF outcome.ok /\ SchemaValid(outcome.quiz_set) /\ IndexInBounds(outcome.quiz_set)
       THEN [att EXCEPT !.pc = "returned", !.returned = outcome.quiz_set]
       ELSE IF att.attempt >= StopAfterAttempt
            THEN [att EXCEPT !.pc = "raised"]
            ELSE att

\* StudyService.generate_quiz reaches _generate_quiz_set.
StartQuiz ==
    /\ quiz.pc # "generating"
    /\ quiz' = [NoQuiz EXCEPT !.pc = "generating"]
    /\ UNCHANGED <<documents, nDocs, store, tasks, course_id, chat, chunker, enrollments, joins>>

QuizAttempt ==
    /\ quiz.pc = "generating"
    /\ \E outcome \in QuizOutcomes : quiz' = generate_quiz_set_attempt(quiz, outcome)
    /\ UNCHANGED <<documents, nDocs, store, tasks, course_id, chat, chunker, enrollments, joins>>

NextQuiz == StartQuiz \/ QuizAttempt

SpecQuiz == Init /\ [][NextQuiz]_vars

\* ------------------------------------------------- rag_spike.chunk_text
\* text[start:end] of Python, positions counted from 0.
Slice(text, start, end) == SubSeq(text, start + 1, Min(end, Len(text)))

\* The loop body with start += chunk_size: the overlap is forgotten.
chunk_text_no_overlap(c) ==
    [c EXCEPT !.chunks = Append(c.chunks, Slice(c.text, c.start, c.start + c.chunk_size)),
              !.start = c.start + c.chunk_size]

\* The body of the while loop of chunk_text: chunk = text[start:end] is
\* appended and start moves on by chunk_size - overlap.
chunk_text_iteration(c) ==
    [c EXCEPT !.chunks = Append(c.chunks, Slice(c.text, c.start, c.start + c.chunk_size)),
              !.start = c.start + (c.chunk_size - c.overlap)]

\* while start < len(text): one more iteration.
ChunkIterate ==
    /\ chunker.pc = "loop" /\ chunker.start < Len(chunker.text)
    /\ chunker' = chunk_text_iteration(chunker)
    /\ UNCHANGED <<documents, nDocs, store, tasks, course_id, chat, quiz, enrollments, joins>>

\* The loop condition is false: return chunks.
ChunkReturn ==
    /\ chunker.pc = "loop" /\ ~(chunker.start < Len(chunker.text))
    /\ chunker' = [chunker EXCEPT !.pc = "done"]
    /\ UNCHANGED <<documents, nDocs, store, tasks, course_id, chat, quiz, enrollments, joins>>

\* Non-empty texts over two characters.
Texts == UNION { [1..n -> {1, 2}] : n \in 1..MaxTextLen }

\* chunk_text(text, chunk_size, overlap) is called with chunk_size > overlap >= 0.
InitChunk ==
    /\ documents = [d \in Docs |-> Absent]
    /\ nDocs = 0
    /\ store = {}
    /\ tasks = << >>
    /\ course_id = [d \in Docs |-> NoCourse]
    /\ chat = NoRequest
    /\ quiz = NoQuiz
    /\ enrollments = {}
    /\ joins = << >>
    /\ \E text \in Texts, chunk_size \in 1..MaxChunkSize :
          \E overlap \in 0..(chunk_size - 1) :
             chunker = [NoChunking EXCEPT !.pc = "loop", !.text = text,
                                          !.chunk_size = chunk_size, !.overlap = overlap]

NextChunk == ChunkIterate \/ ChunkReturn

\* The call runs on: a step that can be taken is taken.
SpecChunk == InitChunk /\ [][NextChunk]_vars /\ WF_vars(NextChunk)

\* ------------------------------------------------------------ join_course
Teacher == 0
Students == 1..NumStudents
Users == {Teacher} \cup Students

\* current_user.role
role(user) == IF user = Teacher THEN "teacher" ELSE "student"

\* select(Enrollment).where(Enrollment.user_id == current_user.id,
\* Enrollment.course_id == course_id)
EnrollmentsOf(user, course) ==
    { e \in enrollments : e.user_id = user /\ e.course_id = course }

\* join_course down to its second SELECT: the role, the course and the
\* join code are checked, then the enrollments of the student in the
\* course are read; scalar_one_or_none() raises MultipleResultsFound when
\* there are two rows or more. found is the number of rows the SELECT saw.
join_course_check(user, course, code_ok) ==
    LET found == Cardinality(EnrollmentsOf(user, course))
        request == [user |-> user, course |-> course, pc |-> "done", found |-> 0,
                    status |-> 0, detail |-> ""]
    IN IF role(user) # "student"
       THEN [request EXCEPT !.status = 403, !.detail = "Only students can join courses"]
       ELSE IF course \notin Courses
       THEN [request EXCEPT !.status = 404, !.detail = "Course not found"]
       ELSE IF ~code_ok
       THEN [request EXCEPT !.status = 403, !.detail = "Invalid join code"]
       ELSE IF found > 1
       THEN [request EXCEPT !.found = found, !.status = 500,
                            !.detail = "MultipleResultsFound"]
       ELSE IF found = 1
       THEN [request EXCEPT !.found = found, !.status = 400,
                            !.detail = "Already enrolled in this course"]
       ELSE [request EXCEPT !.pc = "inserting"]

\* POST /courses/{course_id}/join is received and runs to the await of
\* its commit.
JoinCourse(user, course, code_ok) ==
    /\ Len(joins) < MaxJoins
    /\ joins' = Append(joins, join_course_check(user, course, code_ok))
    /\ UNCHANGED <<documents, nDocs, store, tasks, course_id, chat, quiz, chunker,
                   enrollments>>

\* session.add(enrollment) and session.commit(): the row is inserted (the
\* table has no unique constraint on user_id, course_id) and 201 returned,
\* or the database fails and nothing is inserted.
JoinCommit(r, commits) ==
    /\ r \in 1..Len(joins) /\ joins[r].pc = "inserting"
    /\ IF commits
       THEN /\ enrollments' = enrollments \cup
                    { [id |-> r, user_id |-> joins[r].user, course_id |-> joins[r].course] }
            /\ joins' = [joins EXCEPT ![r].pc = "done", ![r].status = 201,
                                      ![r].detail = "Successfully enrolled in course"]
       ELSE /\ enrollments' = enrollments
            /\ joins' = [joins EXCEPT ![r].pc = "done", ![r].status = 500,
                                      ![r].detail = "Internal Server Error"]
    /\ UNCHANGED <<documents, nDocs, store, tasks, course_id, chat, quiz, chunker>>

NextJoin ==
    \/ \E user \in Users, course \in Courses \cup {NoCourse}, code_ok \in BOOLEAN :
          JoinCourse(user, course, code_ok)
    \/ \E r \in 1..MaxJoins, commits \in BOOLEAN : JoinCommit(r, commits)

SpecJoin == Init /\ [][NextJoin]_vars

Next ==
    \/ \E d \in Docs, f \in FileSet, course \in Courses : UploadDocument(d, f, course)
    \/ \E d \in Docs : Trigger(d)
    \/ \E d \in Docs : DeleteDocument(d)
    \/ \E t \in TaskIds : StartRun(t)
    \/ \E t \in TaskIds : ExtractAndSplit(t)
    \/ \E t \in TaskIds : EmbedAttempt(t)
    \/ \E t \in TaskIds, commits \in BOOLEAN : SaveChunks(t, commits)

Spec == Init /\ [][Next]_vars

\* A step of a worker on some task message.
Work ==
    \E t \in TaskIds :
        \/ StartRun(t)
        \/ ExtractAndSplit(t)
        \/ EmbedAttempt(t)
        \/ \E commits \in BOOLEAN : SaveChunks(t, commits)

\* The pipeline with every upload made to the first course: the course of
\* a document has no part in how its runs go on.
NextFair ==
    \/ \E d \in Docs, f \in FileSet : UploadDocument(d, f, 1)
    \/ \E d \in Docs : Trigger(d)
    \/ \E d \in Docs : DeleteDocument(d)
    \/ Work

\* That pipeline with a worker that keeps taking the messages and retries
\* there are and carries each run on; every call it makes is answered.
SpecFair == Init /\ [][NextFair]_vars /\ WF_vars(Work)

\* The exceptions of the two time limits of a task.
TimeLimitKinds == {"SoftTimeLimitExceeded", "TimeLimitExceeded"}

\* The locals of a run, gone with the run.
Dropped(task, kind) ==
    [task EXCEPT !.err = kind, !.file = <<>>, !.chunks = <<>>,
                 !.data = <<>>, !.embeddings = <<>>]

\* An abandoned run that leaves behind the rows it had built so far.
AbandonFlushed(t, hard) ==
    /\ t \in 1..Len(tasks)
    /\ tasks[t].pc \in {"EXTRACTING", "EMBEDDING", "STORING"}
    /\ LET task == tasks[t]
       IN /\ tasks' = [tasks EXCEPT ![t] =
                          IF hard
                          THEN [Dropped(task, "TimeLimitExceeded") EXCEPT !.pc = "FAILURE"]
                          ELSE Retry(task, "SoftTimeLimitExceeded")]
          /\ store' = store \cup ChunkRows(t, task.retries, task.doc, task.chunks,
                                           task.embeddings)
    /\ UNCHANGED <<documents, nDocs, course_id, chat, quiz, chunker, enrollments, joins>>

\* A run is abandoned before its commit. task_soft_time_limit raises
\* SoftTimeLimitExceeded inside the task: the session is closed without a
\* commit and the except clause retries the task. task_time_limit kills
\* the worker process: the connection is lost with nothing committed and
\* the task fails.
Abandon(t, hard) ==
    /\ t \in 1..Len(tasks)
    /\ tasks[t].pc \in {"EXTRACTING", "EMBEDDING", "STORING"}
    /\ LET task == tasks[t]
       IN tasks' = [tasks EXCEPT ![t] =
                       IF hard
                       THEN [Dropped(task, "TimeLimitExceeded") EXCEPT !.pc = "FAILURE"]
                       ELSE Retry(task, "SoftTimeLimitExceeded")]
    /\ UNCHANGED <<documents, nDocs, store, course_id, chat, quiz, chunker, enrollments, joins>>

\* The pipeline with runs that can be abandoned.
NextAbandon ==
    \/ NextFair
    \/ \E t \in TaskIds, hard \in BOOLEAN : Abandon(t, hard)

SpecAbandon == Init /\ [][NextAbandon]_vars

\* The pipeline with questions asked while it runs.
NextLive ==
    \/ Next
    \/ \E course \in Courses, question \in LiveQuestions :
          SearchRelevantChunks(course, question, TopK, SimilarityThreshold)

SpecLive == Init /\ [][NextLive]_vars

\* The task of a document whose first run succeeded at its first attempt.
DoneTask(d, file) ==
    LET chunks == split_text(extract_text_from_pdf(file))
        data == [i \in 1..Len(chunks) |->
                    [index |-> i - 1, embedding |-> EmbeddingModel(chunks[i])]]
    IN [NewTask(d) EXCEPT !.pc = "SUCCESS", !.attempt = 1, !.chunks = chunks,
                          !.data = data, !.embeddings = EmbeddingsOf(data),
                          !.chunk_count = Len(chunks)]

\* Questions over a settled store: some documents were uploaded (a task
\* each, in upload order) or processed again, every task has committed its
\* chunks, and some of the documents have been deleted since.
InitChat ==
    /\ nDocs \in 1..NumDocs
    /\ \E files \in [1..nDocs -> { f \in FileSet : f # Corrupt }], of_course \in [1..nDocs -> Courses],
          deleted \in SUBSET (1..nDocs), m \in nDocs..MaxTasks :
         \E doc_of \in [1..m -> 1..nDocs] :
            /\ \A d \in 1..nDocs : \E i \in 1..m :
                    /\ doc_of[i] = d
                    /\ \A j \in 1..(i - 1) : doc_of[j] < d
            /\ documents = [d \in Docs |->
                                IF d <= nDocs /\ d \notin deleted THEN files[d] ELSE Absent]
            /\ course_id = [d \in Docs |->
                                IF d <= nDocs THEN of_course[d] ELSE NoCourse]
            /\ tasks = [i \in 1..m |-> DoneTask(doc_of[i], files[doc_of[i]])]
            /\ store = UNION { ChunkRows(i, 0,
                                         IF doc_of[i] \in deleted THEN NoDoc ELSE doc_of[i],
                                         tasks[i].chunks, tasks[i].embeddings)
                                 : i \in 1..m }
    /\ chat = NoRequest
    /\ quiz = NoQuiz
    /\ enrollments = {}
    /\ joins = << >>
    /\ chunker = NoChunking

NextChat ==
    \/ \E course \in Courses, question \in Questions, top_k \in TopKs,
          similarity_threshold \in Thresholds :
          SearchRelevantChunks(course, question, top_k, similarity_threshold)
    \/ \E course \in Courses, question \in Questions : ChatWithCourse(course, question)

SpecChat == InitChat /\ [][NextChat]_vars

\* ------------------------------------------------------------ properties
TaskSet == 1..Len(tasks)

\* The committed chunks of document d, and the rows committed by run r of
\* task t (whatever their document_id has become).
RowsOf(d) == { c \in store : c.document_id = d }
RunRows(t, r) == { c \in store : c.id[1] = t /\ c.id[2] = r }
TaskRows(t) == { c \in store : c.id[1] = t }

\* The run a task is in, or the last one it finished.
LastRun(t) ==
    IF tasks[t].pc = "RETRY" THEN tasks[t].retries - 1 ELSE tasks[t].retries

InFlight(t) == tasks[t].pc \in {"EXTRACTING", "EMBEDDING", "STORING"}

\* A row without its foreign key (delete_document sets it to NULL).
Content(c) == [id |-> c.id, text_content |-> c.text_content,
               chunk_index |-> c.chunk_index, embedding |-> c.embedding]

\* C1: the chunks stored for a document carry the chunk_index values
\* 0..N-1, N the number of its chunks: no gap and no duplicate.
C1_ContiguousIndices ==
    \A d \in Docs :
        LET rows == RowsOf(d)
        IN /\ { c.chunk_index : c \in rows } = 0..(Cardinality(rows) - 1)
           /\ \A c1, c2 \in rows : c1.chunk_index = c2.chunk_index => c1 = c2

\* C2: when two runs for the same document have both completed, the
\* document's chunks are those of one run, in count and text: the second
\* run replaced the chunks of the first, it did not add to them.
C2_ReprocessIdempotent ==
    \A t, u \in TaskSet :
        ( /\ t < u
          /\ tasks[t].doc = tasks[u].doc
          /\ tasks[t].pc = "SUCCESS" /\ tasks[u].pc = "SUCCESS"
          /\ Exists(tasks[t].doc) )
        => \E one \in {t, u} :
              LET mine == RunRows(one, tasks[one].retries)
                  all == RowsOf(tasks[t].doc)
              IN /\ Cardinality(all) = Cardinality(mine)
                 /\ { <<c.chunk_index, c.text_content>> : c \in all }
                      = { <<c.chunk_index, c.text_content>> : c \in mine }

C4_ExhaustedEmbeddingStoresNothing ==
    \A t \in TaskSet :
        (tasks[t].attempt = 3 /\ tasks[t].err \in EmbedErrKinds)
        => /\ tasks[t].pc \in {"RETRY", "FAILURE"}
           /\ tasks[t].chunk_count = -1
           /\ RunRows(t, LastRun(t)) = {}

\* The third attempt of a run has failed while chunks of some run are stored.
C4_Witness ==
    /\ \E t \in TaskSet : tasks[t].attempt = 3 /\ tasks[t].err \in EmbedErrKinds
    /\ store # {}

\* C5: a run whose embedding call succeeded on the third attempt goes on to
\* the storage step with the embeddings of that response, and when it
\* commits, it has stored the rows and returned the count of a run that
\* got the same response on its first attempt.
C5_RetryTransparent ==
    \A t \in TaskSet :
        LET task == tasks[t]
        IN (task.attempt = 3 /\ task.err \notin EmbedErrKinds)
           => /\ task.pc \in {"STORING", "SUCCESS"}
                 => /\ task.data \in ServiceAnswers(task.chunks)
                    /\ task.embeddings = EmbeddingsOf(task.data)
              /\ task.pc = "SUCCESS"
                 => /\ { Content(c) : c \in RunRows(t, task.retries) }
                         = { Content(c) : c \in ChunkRows(t, task.retries, task.doc,
                                              task.chunks, EmbeddingsOf(task.data)) }
                    /\ task.chunk_count = Len(task.chunks)

\* A run has committed one row per chunk text after two failed attempts.
C5_Witness ==
    \E t \in TaskSet :
        /\ tasks[t].pc = "SUCCESS" /\ tasks[t].attempt = 3
        /\ Len(tasks[t].chunks) >= 2
        /\ Cardinality(RunRows(t, tasks[t].retries)) = Len(tasks[t].chunks)

\* C6: one _generate_embeddings call makes at most 3 attempts, and after a
\* third failure it has raised: the run never reaches the storage step and
\* holds no vectors.
C6_AtMostThreeAttempts ==
    \A t \in TaskSet :
        /\ tasks[t].attempt <= 3
        /\ (tasks[t].attempt = 3 /\ tasks[t].err \in EmbedErrKinds)
           => /\ tasks[t].pc \in {"RETRY", "FAILURE"}
              /\ tasks[t].embeddings = <<>> /\ tasks[t].data = <<>>

\* The third attempt of a call on two texts or more has failed and the
\* task is to be retried.
C6_Witness ==
    \E t \in TaskSet :
        /\ tasks[t].attempt = 3 /\ tasks[t].err \in EmbedErrKinds
        /\ tasks[t].pc = "RETRY"

\* C7: after an attempt of the embedding call has failed with a
\* non-transient failure, no further attempt of that call is made.
C7_NoRetryAfterPermanent ==
    [][ \A t \in TaskSet :
          (tasks[t].pc = "EMBEDDING" /\ tasks[t].err = "embed_invalid")
          => tasks'[t].attempt <= tasks[t].attempt ]_vars

\* C8: a task is retried at most 3 times; a run that failed with a
\* transient failure and is retried starts again from the first step with
\* nothing kept from the failed run; a task fails for good on a transient
\* failure only when its 3 retries are used up, and then, as before every
\* retry, no chunk of its failed runs is stored.
C8_TransientRetriedThenFailed ==
    \A t \in TaskSet :
        LET task == tasks[t]
        IN /\ task.retries <= 3
           /\ (task.pc = "RETRY" /\ task.err \in TransientKinds)
              => /\ task.retries >= 1
                 /\ Runnable(t)
                 /\ task.file = <<>> /\ task.chunks = <<>>
                 /\ task.data = <<>> /\ task.embeddings = <<>>
                 /\ TaskRows(t) = {}
           /\ (task.pc = "FAILURE" /\ task.err \in TransientKinds)
              => /\ task.retries = 3
                 /\ TaskRows(t) = {}

\* A task has failed for good on a transient failure after its retries.
C8_Witness ==
    \E t \in TaskSet :
        /\ tasks[t].pc = "FAILURE" /\ tasks[t].err \in TransientKinds
        /\ tasks[t].retries = 3

\* C9: a run that failed because the document does not exist or its file
\* cannot be parsed is not retried.
C9_PermanentNotRetried ==
    \A t \in TaskSet :
        tasks[t].err \in {"notfound", "corrupt"} => tasks[t].pc # "RETRY"

\* C10: no two runs are in flight for the same document.
C10_OneRunPerDocument ==
    \A t, u \in TaskSet :
        (t # u /\ tasks[t].doc = tasks[u].doc) => ~(InFlight(t) /\ InFlight(u))

\* ------------------------------------------------- retrieval properties
\* The ids of the chunks a request returned, and the score of the question
\* of the last request against a row.
ReturnedIds == { chat.results[i].chunk.id : i \in 1..Len(chat.results) }
QuestionScore(c) == cosine_similarity(EmbeddingModel(chat.question), c.embedding)

\* C11: a retrieval that runs while pipeline runs go on returns, of the
\* chunks of any one run, none or every one that run built and that passes
\* the threshold (unless the limit cut the list short): it never sees a
\* part of a run's chunk set.
C11_NoPartialRead ==
    chat.op = "search" =>
        \A t \in TaskSet : \A r \in 0..MaxRetries :
            LET got == { id \in ReturnedIds : id[1] = t /\ id[2] = r }
                task == tasks[t]
                built == ChunkRows(t, r, task.doc, task.chunks, task.embeddings)
            IN \/ got = {}
               \/ Len(chat.results) = chat.top_k
               \/ /\ task.pc = "SUCCESS" /\ r = task.retries
                  /\ got = { c.id : c \in { x \in built :
                                              QuestionScore(x) >= chat.threshold } }

\* A retrieval ran during the only run of a task: it returned the two
\* chunks a later task of the same document had already committed and
\* none of the chunks the first one committed afterwards.
C11_Witness ==
    /\ chat.op = "search"
    /\ \E t, u \in TaskSet :
         /\ t < u /\ tasks[t].doc = tasks[u].doc
         /\ tasks[t].pc = "SUCCESS" /\ tasks[u].pc = "SUCCESS"
         /\ tasks[t].retries = 0
         /\ Cardinality(TaskRows(t)) = 2
         /\ ReturnedIds = { c.id : c \in TaskRows(u) }
         /\ Cardinality(ReturnedIds) = 2

\* The rows of the store whose document is in the course of the last
\* request and whose score reaches the threshold t.
InScope(t) ==
    { c \in store : /\ c.document_id \in Docs /\ Exists(c.document_id)
                    /\ course_id[c.document_id] = chat.course
                    /\ QuestionScore(c) >= t }

\* The lists _search_relevant_chunks can return for the arguments of the
\* last request with the threshold t, on the store as it is.
SearchAgain(t) ==
    search_relevant_chunks(chat.course, EmbeddingModel(chat.question), chat.top_k, t)

ChunkIds(results) == { results[i].chunk.id : i \in 1..Len(results) }

\* C12: a retrieval returns at most top_k results and each of them has a
\* score of at least the threshold.
C12_AtMostKAboveThreshold ==
    chat.op \in {"search", "chat"} =>
        /\ Len(chat.results) <= chat.top_k
        /\ \A i \in 1..Len(chat.results) :
              /\ chat.results[i].score >= chat.threshold
              /\ QuestionScore(chat.results[i].chunk) >= chat.threshold

\* The limit cut the list and the threshold kept a row of the course out.
C12_Witness ==
    /\ chat.op = "search" /\ chat.top_k >= 1
    /\ Len(chat.results) = chat.top_k
    /\ Cardinality(InScope(chat.threshold)) > chat.top_k
    /\ InScope(0) # InScope(chat.threshold)

\* C13: the returned list is in descending order of score, results of equal
\* score are in ascending chunk_index order, and it is the only list the
\* same store and query can give.
C13_OrderedAndDeterministic ==
    chat.op = "search" =>
        /\ \A i, j \in 1..Len(chat.results) :
              i < j =>
                 /\ chat.results[i].score >= chat.results[j].score
                 /\ chat.results[i].score = chat.results[j].score
                      => chat.results[i].chunk.chunk_index
                            <= chat.results[j].chunk.chunk_index
        /\ \A other \in SearchAgain(chat.threshold) : other = chat.results

\* C14: every chunk returned with a threshold is also returned, by any
\* retrieval on the same store, course, question and top_k, with every
\* lower threshold.
C14_ThresholdMonotone ==
    chat.op = "search" =>
        \A lower \in Thresholds :
            lower <= chat.threshold
            => \A other \in SearchAgain(lower) : ReturnedIds \subseteq ChunkIds(other)

\* C15: every chunk returned by a retrieval for a course is a chunk of a
\* document of that course.
C15_ScopedToCourse ==
    chat.op \in {"search", "chat"} =>
        \A i \in 1..Len(chat.results) :
            LET c == chat.results[i].chunk
            IN /\ c \in store
               /\ c.document_id \in Docs /\ Exists(c.document_id)
               /\ course_id[c.document_id] = chat.course

\* A retrieval returned chunks while a chunk of a document of another
\* course scores at least as high as the threshold.
C15_Witness ==
    /\ chat.op = "search" /\ chat.results # <<>>
    /\ \E c \in store :
          /\ c.document_id \in Docs /\ Exists(c.document_id)
          /\ course_id[c.document_id] # chat.course
          /\ QuestionScore(c) >= chat.threshold

\* C16: when the question was embedded and the retrieval found nothing,
\* answering fails with the no-relevant-material ValueError and the
\* completion service is not called; it is only ever called for a question
\* whose retrieval found a chunk.
C16_EmptyRetrievalNoCompletion ==
    chat.op = "chat" =>
        /\ (chat.failed # "embedding" /\ InScope(chat.threshold) = {})
           => /\ chat.raised = "ValueError" /\ chat.detail = NoRelevantMessage
              /\ chat.completion_calls = 0
              /\ chat.results = <<>>
        /\ chat.completion_calls > 0 => InScope(chat.threshold) # {}

\* A question for a course none of whose documents has a stored chunk got
\* the no-relevant-material answer.
C16_Witness ==
    /\ chat.op = "chat" /\ chat.failed = "none"
    /\ \A c \in store : c.document_id \in Docs => course_id[c.document_id] # chat.course
    /\ chat.detail = NoRelevantMessage

C18_ConfidenceOfTopScore ==
    (chat.op = "chat" /\ chat.status = 200) =>
        LET top == chat.results[1].score
        IN /\ top >= 75 => chat.confidence = "high"
           /\ (60 <= top /\ top < 75) => chat.confidence = "medium"
           /\ top < 60 => chat.confidence = "low"

\* A successful response whose first result scores 0.75 or more and whose
\* last result scores less than 0.6.
C18_Witness ==
    /\ chat.op = "chat" /\ chat.status = 200
    /\ Len(chat.results) >= 2
    /\ chat.results[1].score >= 75
    /\ chat.results[Len(chat.results)].score < 60
    /\ chat.confidence = "high"

\* C19: once the completion model has returned a quiz in which a
\* correct_answer_index is out of the range of its options, the generation
\* has failed without a further attempt and returns no quiz; and a quiz
\* that is returned is the response as it came, every index in range.
C19_OutOfRangeRejectedOnce ==
    /\ quiz.first_invalid > 0
       => /\ quiz.pc = "raised"
          /\ quiz.attempt = quiz.first_invalid
          /\ quiz.returned = <<>>
    /\ quiz.pc = "returned"
       => /\ quiz.returned = quiz.response
          /\ \A i \in 1..Len(quiz.returned) :
                /\ quiz.returned[i].correct_answer_index >= 0
                /\ quiz.returned[i].correct_answer_index < quiz.returned[i].options

\* C20: once a document is deleted, no chunk that a run stored for it is
\* left in the chunk store, and no retrieval made from then on returns
\* such a chunk, whenever the deletion came relative to the runs.
C20_DeletedDocumentLeavesNoChunk ==
    /\ [](\A t \in TaskSet : ~Exists(tasks[t].doc) => TaskRows(t) = {})
    /\ [][ chat' # chat =>
             \A i \in 1..Len(chat'.results) :
                 Exists(tasks[chat'.results[i].chunk.id[1]].doc) ]_vars

\* ------------------------------------------------- pipeline, continued
\* The file of document d is a PDF none of whose pages yields text.
EmptyExtraction(d) ==
    /\ Exists(d) /\ documents[d] # Corrupt
    /\ extract_text_from_pdf(documents[d]) = <<>>

\* C21: a run for a document whose extraction yields the empty text does
\* not fail on account of its zero chunks: it is not retried or failed by
\* the embedding step, and when it succeeds it has stored no chunk and
\* returned the chunk count 0.
C21_EmptyTextSucceeds ==
    \A t \in TaskSet :
        EmptyExtraction(tasks[t].doc)
        => /\ tasks[t].pc \in {"RETRY", "FAILURE"} => tasks[t].err \notin EmbedErrKinds
           /\ tasks[t].pc = "SUCCESS"
              => tasks[t].chunk_count = 0 /\ TaskRows(t) = {}

RECURSIVE Reassemble(_, _)
\* The chunks put together again, what a chunk shares with the one before
\* it (its first overlap characters) taken once.
Reassemble(chunks, overlap) ==
    IF chunks = <<>> THEN <<>>
    ELSE IF Len(chunks) = 1 THEN chunks[1]
    ELSE LET last == chunks[Len(chunks)]
         IN Reassemble(SubSeq(chunks, 1, Len(chunks) - 1), overlap)
            \o SubSeq(last, Min(overlap, Len(last)) + 1, Len(last))

\* C22: chunking a non-empty text with chunk_size > overlap >= 0 comes to
\* an end, and the chunks it returns are each at most chunk_size long and,
\* put together in order with the shared overlap taken once, give the text.
C22_ChunkerReconstructs ==
    /\ <>(chunker.pc = "done")
    /\ [](chunker.pc = "done"
          => /\ \A i \in 1..Len(chunker.chunks) :
                   Len(chunker.chunks[i]) <= chunker.chunk_size
             /\ Reassemble(chunker.chunks, chunker.overlap) = chunker.text)

\* A call returned three chunks or more of a text with both characters,
\* with an overlap.
C22_Witness ==
    /\ chunker.pc = "done" /\ chunker.overlap >= 1
    /\ Len(chunker.chunks) >= 3
    /\ \E i, j \in 1..Len(chunker.text) : chunker.text[i] # chunker.text[j]

Terminal(t) ==
    IF t \in TaskSet THEN tasks[t].pc \in {"SUCCESS", "FAILURE"} ELSE FALSE

\* C23: every task message that was sent comes to an end, with success or
\* with failure, whatever the storage, the parser, the embedding service
\* and the database answer.
C23_EveryRunTerminates ==
    \A t \in TaskIds : (t \in TaskSet) ~> Terminal(t)

\* A task has succeeded after a retry while another has failed for good.
C23_Witness ==
    \E t, u \in TaskSet :
        /\ tasks[t].pc = "SUCCESS" /\ tasks[t].retries >= 1
        /\ tasks[u].pc = "FAILURE"

\* NULL in document_chunks.embedding (the column's default).
NoEmbedding == << >>

\* The rows the last run of task t committed that carry chunk_index i.
RowsAt(t, i) == { c \in RunRows(t, tasks[t].retries) : c.chunk_index = i }

\* C24: a task is in SUCCESS, with a chunk count, only when every chunk
\* its run produced for the document is a committed row of the store, and
\* no row of the store has a NULL embedding.
C24_SuccessAfterAllChunksStored ==
    /\ \A t \in TaskSet :
          tasks[t].pc = "SUCCESS"
          => /\ tasks[t].chunk_count = Len(tasks[t].chunks)
             /\ \A i \in 1..Len(tasks[t].chunks) :
                   \E c \in RowsAt(t, i - 1) : c.text_content = tasks[t].chunks[i]
    /\ \A c \in store : c.embedding # NoEmbedding

\* C26: in every successful run the embedding service gave back as many
\* vectors as it was given texts, and the row with chunk_index i holds the
\* i-th chunk text with the vector of that text.
C26_RowsPairTextAndVector ==
    \A t \in TaskSet :
        tasks[t].pc = "SUCCESS"
        => /\ Len(tasks[t].embeddings) = Len(tasks[t].chunks)
           /\ \A i \in 1..Len(tasks[t].chunks) :
                 \A c \in RowsAt(t, i - 1) :
                     /\ c.text_content = tasks[t].chunks[i]
                     /\ c.embedding = EmbeddingModel(tasks[t].chunks[i])

\* C28: the chunk count a successful run returned is the number of rows
\* that run committed.
C28_CountIsRowsStored ==
    \A t \in TaskSet :
        tasks[t].pc = "SUCCESS"
        => tasks[t].chunk_count = Cardinality(RunRows(t, tasks[t].retries))

\* The run of task t that was going on has just been abandoned.
Abandoned(t) ==
    /\ t \in TaskSet
    /\ InFlight(t)
    /\ tasks'[t].err \in TimeLimitKinds
    /\ tasks'[t].pc \in {"RETRY", "FAILURE"}

\* C25: abandoning a run before its commit changes nothing in the chunk
\* store, and a run that was abandoned has no row there: the store is as
\* it would be had the run not been started.
C25_AbandonLeavesStore ==
    /\ [][ \A t \in TaskIds : Abandoned(t) => store' = store ]_vars
    /\ [](\A t \in TaskSet :
            (tasks[t].err \in TimeLimitKinds /\ tasks[t].pc \in {"RETRY", "FAILURE"})
            => RunRows(t, LastRun(t)) = {})

\* A run was abandoned by the hard limit after it had called the
\* embedding service, while rows of another run are in the store.
C25_Witness ==
    \E t \in TaskSet :
        /\ tasks[t].err \in TimeLimitKinds
        /\ tasks[t].pc = "FAILURE"
        /\ tasks[t].attempt >= 1
        /\ store # {}

\* C27: a question that is answered, or that fails to be, changes no row
\* of the chunk store and no document.
C27_AnsweringReadsOnly ==
    [][ chat' # chat
        => /\ store' = store
           /\ documents' = documents
           /\ course_id' = course_id ]_vars

\* A question asked of a course with chunks in the store has failed.
C27_Witness ==
    /\ chat.op = "chat" /\ chat.status = 500
    /\ \E c \in store :
          /\ c.document_id \in Docs
          /\ course_id[c.document_id] = chat.course

\* The runs of a task at most, and the embedding calls they make at most.
MaxRuns == MaxRetries + 1
MaxEmbedCalls == MaxRuns * StopAfterAttempt

\* Task t has just made a call of the embedding service.
EmbeddingCalled(t) ==
    /\ t \in TaskSet
    /\ tasks[t].pc = "EMBEDDING"
    /\ tasks'[t] # tasks[t]

\* C29: a task message is run at most 4 times, the runs numbered by
\* request.retries 0..3; every call of the embedding service is one more
\* attempt of the run it is made in, a run makes at most 3 of them and a
\* new run starts counting again; a task that has ended makes no call.
\* Hence at most 12 calls are made for one message.
C29_BoundedEmbeddingCalls ==
    /\ [](\A t \in TaskSet :
            /\ LastRun(t) + 1 <= MaxRuns
            /\ tasks[t].attempt <= StopAfterAttempt
            /\ StopAfterAttempt * LastRun(t) + tasks[t].attempt <= MaxEmbedCalls
            /\ MaxEmbedCalls = 12)
    /\ [][ \A t \in TaskSet :
             /\ EmbeddingCalled(t)
                => /\ tasks'[t].attempt = tasks[t].attempt + 1
                   /\ LastRun(t)' = LastRun(t)
             /\ (~EmbeddingCalled(t) /\ tasks'[t].attempt # tasks[t].attempt)
                => /\ tasks'[t].attempt = 0
                   /\ tasks[t].pc \in {"PENDING", "RETRY"}
             /\ tasks[t].pc \in {"SUCCESS", "FAILURE"} => tasks'[t] = tasks[t] ]_vars

\* A task has failed for good in the third embedding attempt of its
\* fourth run.
C29_Witness ==
    \E t \in TaskSet :
        /\ tasks[t].pc = "FAILURE" /\ tasks[t].retries = MaxRetries
        /\ tasks[t].attempt = StopAfterAttempt
        /\ tasks[t].err \in EmbedErrKinds

\* C30: a student has at most one enrollment in a course, and a join by a
\* student who is enrolled already is answered 400 "Already enrolled" and
\* inserts no row.
C30_AtMostOneEnrollment ==
    /\ \A user \in Students, course \in Courses :
          Cardinality(EnrollmentsOf(user, course)) <= 1
    /\ \A r \in 1..Len(joins) :
          joins[r].found >= 1
          => /\ joins[r].status = 400
             /\ joins[r].detail = "Already enrolled in this course"
             /\ \A e \in enrollments : e.id # r
====
